---- MODULE Spec2Model ----
(***************************************************************************)
(* Model of the multi-account OAuth token store of mcp_gmail               *)
(* (src/mcp_gmail/gmail.py): the token file, its structural               *)
(* classification, get_account_keys, _save_token_file and                  *)
(* get_gmail_service, and of the operations built on it.  The             *)
(* specifications share the variables: Spec, one process calling the      *)
(* token store; SpecConc, two processes in get_gmail_service on one file;  *)
(* SpecRetry, a request to the remote service executed through             *)
(* _execute_with_retry or directly; SpecQuery, the query search_messages   *)
(* builds; SpecReply, the Cc of create_reply_message; SpecOutbound, the    *)
(* four operations that send or draft a message; SpecBatch, get_emails of  *)
(* server.py; SpecServer, the handle cache of get_service; SpecPaths,      *)
(* get_token_path_for_account of config.py.                                *)
(*                                                                         *)
(* JSON values are tagged records [t, n, o] of one shape: a number         *)
(* (t = "num"), null (t = "null") or an object (t = "obj"), whose entries  *)
(* o are a sequence of [k, v] pairs in file order, as a Python dict keeps  *)
(* them.                                                                   *)
(*                                                                         *)
(* Environment (the google-auth library and the identity provider, which   *)
(* are not part of the repository): an interactive authorization that      *)
(* succeeds yields a credential with a fresh access token and a fresh      *)
(* refresh token; a refresh that succeeds yields a fresh access token and  *)
(* keeps the refresh token; Credentials.to_json() writes the fields token, *)
(* refresh_token, client_id (the other fields play no part here);          *)
(* Credentials.from_authorized_user_info raises ValueError when the fields *)
(* refresh_token or client_id are missing.  Whether a loaded credential is *)
(* valid or expired depends on the clock and is an input of each           *)
(* invocation.                                                             *)
(***************************************************************************)
EXTENDS Naturals, Sequences, FiniteSets, TLC

VARIABLES
    file,      \* the token file at token_path: [exists, data]
    issued,    \* number of access tokens issued so far (ids 1..issued)
    last,      \* what the last invocation did (observation of one call)
    procs,     \* two processes sharing the file: each one's place in
               \* get_gmail_service and its local variables
    event,     \* the last step of a process: [proc, kind]
    call,      \* one request to the remote mail service and its execution
    search,    \* one search: its filters, the clauses and the query built
    reply,     \* one reply: the original headers, the arguments and the Cc built
    outbound,  \* one outbound message: its attachments and the requests issued
    batch,     \* one get_emails call: the ids, the two lists and the result
    server,    \* the handles cached by get_service and its last call
    paths,     \* one get_token_path_for_account call and the path returned
    origin     \* history: whether the file was absent at the start, and for
               \* each access token the account key of the invocation of
               \* get_gmail_service that obtained it

vars == <<file, issued, last, procs, event, call, search, reply, outbound, batch, server, paths,
         origin>>

\* The variables of the token store
storeVars == <<file, issued, last, origin>>

\* The variables of the remote request model
retryVars == <<call>>

\* The variables of the search model
queryVars == <<search>>

\* The variables of the other models, each with the variables it leaves alone
replyRest == <<search, outbound, batch, server, paths>>

outboundRest == <<search, reply, batch, server, paths>>

batchRest == <<search, reply, outbound, server, paths>>

serverRest == <<search, reply, outbound, batch, paths>>

pathsRest == <<search, reply, outbound, batch, server>>

laterVars == <<reply, outbound, batch, server, paths>>

\* The variables of the two-process model
concVars == <<procs, event>>

\* The variables of the one-process model that the two-process model does
\* not use
seqVars == <<last, origin>>

\* Bound: access tokens issued in one behaviour (authorizations + refreshes).
MaxIssued == 4

-----------------------------------------------------------------------------
(* JSON values and Python dict operations *)

Null == [t |-> "null", n |-> 0, o |-> <<>>]
Num(x) == [t |-> "num", n |-> x, o |-> <<>>]
Obj(es) == [t |-> "obj", n |-> 0, o |-> es]

Entry(key, val) == [k |-> key, v |-> val]

\* `key in d`
HasKey(d, key) == d.t = "obj" /\ \E i \in 1..Len(d.o) : d.o[i].k = key

\* d.get(key): None when absent
Get(d, key) ==
    IF HasKey(d, key)
    THEN d.o[CHOOSE i \in 1..Len(d.o) : d.o[i].k = key].v
    ELSE Null

\* d[key] = val: in place when the key exists, appended otherwise
SetKey(d, key, val) ==
    IF HasKey(d, key)
    THEN Obj([i \in 1..Len(d.o) |-> IF d.o[i].k = key THEN Entry(key, val) ELSE d.o[i]])
    ELSE Obj(Append(d.o, Entry(key, val)))

\* list(d.keys()): the keys in file order
Keys(d) == [i \in 1..Len(d.o) |-> d.o[i].k]

KeySet(d) == {d.o[i].k : i \in 1..Len(d.o)}

\* Python truthiness of a JSON value
Truthy(v) ==
    CASE v.t = "null" -> FALSE
      [] v.t = "num" -> v.n # 0
      [] v.t = "obj" -> Len(v.o) > 0

-----------------------------------------------------------------------------
(* Account arguments *)

\* Python None as the `account` argument (no string of the domain)
None == "<None>"

\* The account strings callers pass; "refresh_token" is a string that is
\* also the name of a token field.
AccountNames == {"", "default", "work", "home", "refresh_token"}

AccountArgs == AccountNames \cup {None}

\* The account strings in lexicographic order, as sorted() orders them
KeyOrder == <<"", "default", "home", "refresh_token", "work">>

\* sorted(keys)
Sorted(keyset) == SelectSeq(KeyOrder, LAMBDA x : x \in keyset)

\* account_key = account or "default"
AccountKey(account) ==
    IF account = None \/ account = "" THEN "default" ELSE account

-----------------------------------------------------------------------------
(* Credentials *)

NoCreds == [some |-> FALSE, token |-> 0, refresh_token |-> 0]

Creds(tok, rt) == [some |-> TRUE, token |-> tok, refresh_token |-> rt]

\* json.loads(creds.to_json())
ToJson(creds) ==
    Obj(<<Entry("token", Num(creds.token)),
          Entry("refresh_token", Num(creds.refresh_token)),
          Entry("client_id", Num(1))>>)

\* Credentials.from_authorized_user_info(info): ValueError (ok = FALSE)
\* when a required field is missing
FromAuthorizedUserInfo(info) ==
    IF HasKey(info, "refresh_token") /\ HasKey(info, "client_id")
    THEN [ok |-> TRUE,
          creds |-> Creds(Get(info, "token").n, Get(info, "refresh_token").n)]
    ELSE [ok |-> FALSE, creds |-> NoCreds]

-----------------------------------------------------------------------------
(* The token file *)

NoFile == [exists |-> FALSE, data |-> Null]

FileOf(d) == [exists |-> TRUE, data |-> d]

IsLegacyTokenFormat(data) == data.t = "obj" /\ HasKey(data, "refresh_token")

\* Faulty variant: a missing file answered as the docstring of get_account_keys has it
GetAccountKeysMissingIsDefault(f) ==
    IF ~f.exists THEN <<"default">>
    ELSE IF IsLegacyTokenFormat(f.data) THEN <<"default">>
    ELSE IF f.data.t = "obj" THEN Keys(f.data)
    ELSE <<>>

GetAccountKeys(f) ==
    IF ~f.exists THEN <<>>
    ELSE IF IsLegacyTokenFormat(f.data) THEN <<"default">>
    ELSE IF f.data.t = "obj" THEN Keys(f.data)
    ELSE <<>>

\* Faulty variant: the legacy file is never upgraded for a second account
LegacyWithOtherNever(existing_data, account_key) == FALSE

\* legacy_with_other of _save_token_file
LegacyWithOther(existing_data, account_key) ==
    /\ existing_data # Null
    /\ IsLegacyTokenFormat(existing_data)
    /\ account_key # "default"

\* Lines 95-101 of _save_token_file: re-read the file on disk f, wrapping a
\* legacy file under "default"
Reread(f) ==
    IF f.exists
    THEN IF IsLegacyTokenFormat(f.data)
         THEN Obj(<<Entry("default", f.data)>>)
         ELSE f.data
    ELSE Obj(<<>>)

\* Faulty variant: the write merges into the file as it is on disk at the
\* time of the write, as a save under a file lock would
WriteMergedLocked(data, onDisk, token_json, account_key) ==
    FileOf(SetKey(Reread(onDisk), account_key, token_json))

\* Lines 102-104 of _save_token_file: set account_key in the data that was
\* re-read and write it, whatever the file onDisk holds by then
WriteMerged(data, onDisk, token_json, account_key) ==
    FileOf(SetKey(data, account_key, token_json))

\* The multi-account branch of _save_token_file run without interruption:
\* re-read the file on disk f, set account_key, write
MergeWrite(f, token_json, account_key) ==
    WriteMerged(Reread(f), f, token_json, account_key)

\* Faulty variant: is_multi ignored, a multi-account file is overwritten in
\* legacy form
SaveTokenFileIgnoresMulti(f, token_json, account_key, is_multi, existing_data) ==
    IF LegacyWithOther(existing_data, account_key)
    THEN MergeWrite(f, token_json, account_key)
    ELSE FileOf(token_json)

\* _save_token_file: the file after the call, given the file on disk f
SaveTokenFile(f, token_json, account_key, is_multi, existing_data) ==
    IF is_multi \/ LegacyWithOther(existing_data, account_key)
    THEN MergeWrite(f, token_json, account_key)
    ELSE FileOf(token_json)

-----------------------------------------------------------------------------
(* get_gmail_service *)

\* Line 142: a legacy file's root record is used
UsesLegacyRecord(account) == account = None

\* Faulty variant: an unknown explicit key falls through to authorization
RaisesUnknownAccountNever(token_data, account) == FALSE

\* Faulty variant: a missing key raises also when the account is omitted
RaisesUnknownAccountAlways(token_data, account) == ~Truthy(token_data)

\* Lines 147-149: the multi-account file has no usable entry for the key and
\* the ValueError is raised
RaisesUnknownAccount(token_data, account) ==
    ~Truthy(token_data) /\ account # None

\* Lines 133-155: load the file and resolve the account.  error is "none",
\* "unknown_account" (the ValueError of line 151, with the sorted available
\* keys) or "bad_token" (ValueError of from_authorized_user_info).
Resolve(f, account) ==
    LET account_key == AccountKey(account)
        existing_data == IF f.exists THEN f.data ELSE Null
        token_data == Get(existing_data, account_key)
        base == [existing_data |-> existing_data, is_multi_file |-> FALSE,
                 creds |-> NoCreds, error |-> "none", available |-> <<>>]
        FromInfo(r, info) ==
            IF FromAuthorizedUserInfo(info).ok
            THEN [r EXCEPT !.creds = FromAuthorizedUserInfo(info).creds]
            ELSE [r EXCEPT !.error = "bad_token"]
    IN  IF ~f.exists THEN base
        ELSE IF IsLegacyTokenFormat(existing_data)
        THEN IF UsesLegacyRecord(account)
             THEN FromInfo(base, existing_data)
             ELSE base
        ELSE LET multi == [base EXCEPT !.is_multi_file = TRUE]
             IN  IF Truthy(token_data) THEN FromInfo(multi, token_data)
                 ELSE IF RaisesUnknownAccount(token_data, account)
                 THEN [multi EXCEPT !.error = "unknown_account",
                                    !.available = Sorted(KeySet(existing_data))]
                 ELSE multi

\* Faulty variant: "not creds or creds.valid"
NeedsCredentialsInverted(creds, expired) ==
    ~creds.some \/ (creds.token # 0 /\ ~expired)

\* creds.valid: an access token that is not expired
Valid(creds, expired) == creds.some /\ creds.token # 0 /\ ~expired

\* Line 157: not creds or not creds.valid
NeedsCredentials(creds, expired) == ~creds.some \/ ~Valid(creds, expired)

\* Faulty variant: an expired credential is never refreshed, the call falls
\* through to interactive authorization
RefreshableNever(creds, expired) == FALSE

\* Line 158: creds and creds.expired and creds.refresh_token
Refreshable(creds, expired) ==
    creds.some /\ expired /\ creds.refresh_token # 0

\* Faulty variant: the loaded record is saved before the refresh is known to
\* have succeeded, so an invocation that ends in a refresh error has written
GetGmailServiceSavesFirst(f, n, account, expired, refreshOk, credFile, authOk) ==
    LET r == Resolve(f, account)
        account_key == AccountKey(account)
        done == [file |-> f, issued |-> n, outcome |-> "ready",
                 found |-> r.creds.some, creds |-> r.creds,
                 valid |-> Valid(r.creds, expired),
                 refreshes |-> 0, auths |-> 0, writes |-> 0,
                 saved |-> Null, is_multi_file |-> r.is_multi_file,
                 available |-> r.available]
        refreshed == Creds(n + 1, r.creds.refresh_token)
        authorized == Creds(n + 1, n + 1)
        Save(res, creds) ==
            [res EXCEPT !.file = SaveTokenFile(f, ToJson(creds), account_key,
                                               r.is_multi_file, r.existing_data),
                        !.issued = n + 1,
                        !.writes = 1,
                        !.saved = ToJson(creds)]
    IN  IF r.error # "none" THEN [done EXCEPT !.outcome = r.error]
        ELSE IF ~NeedsCredentials(r.creds, expired) THEN done
        ELSE IF Refreshable(r.creds, expired)
        THEN IF refreshOk
             THEN Save([done EXCEPT !.refreshes = 1], refreshed)
             ELSE Save([done EXCEPT !.refreshes = 1,
                                    !.outcome = "refresh_error"], refreshed)
        ELSE IF ~credFile
        THEN [done EXCEPT !.outcome = "no_credentials_file"]
        ELSE IF ~authOk
        THEN [done EXCEPT !.auths = 1, !.outcome = "auth_error"]
        ELSE Save([done EXCEPT !.auths = 1], authorized)

\* The whole call: the file and the number of issued tokens after it, and
\* what it did.  n is the number of tokens issued before the call; expired
\* tells whether the loaded credential has expired, refreshOk and authOk
\* whether creds.refresh and flow.run_local_server succeed, credFile whether
\* credentials_path exists.
GetGmailService(f, n, account, expired, refreshOk, credFile, authOk) ==
    LET r == Resolve(f, account)
        account_key == AccountKey(account)
        done == [file |-> f, issued |-> n, outcome |-> "ready",
                 found |-> r.creds.some, creds |-> r.creds,
                 valid |-> Valid(r.creds, expired),
                 refreshes |-> 0, auths |-> 0, writes |-> 0,
                 saved |-> Null, is_multi_file |-> r.is_multi_file,
                 available |-> r.available]
        refreshed == Creds(n + 1, r.creds.refresh_token)
        authorized == Creds(n + 1, n + 1)
        Save(res, creds) ==
            [res EXCEPT !.file = SaveTokenFile(f, ToJson(creds), account_key,
                                               r.is_multi_file, r.existing_data),
                        !.issued = n + 1,
                        !.writes = 1,
                        !.saved = ToJson(creds)]
    IN  IF r.error # "none" THEN [done EXCEPT !.outcome = r.error]
        ELSE IF ~NeedsCredentials(r.creds, expired) THEN done
        ELSE IF Refreshable(r.creds, expired)
        THEN IF refreshOk
             THEN Save([done EXCEPT !.refreshes = 1], refreshed)
             ELSE [done EXCEPT !.refreshes = 1, !.outcome = "refresh_error"]
        ELSE IF ~credFile
        THEN [done EXCEPT !.outcome = "no_credentials_file"]
        ELSE IF ~authOk
        THEN [done EXCEPT !.auths = 1, !.outcome = "auth_error"]
        ELSE Save([done EXCEPT !.auths = 1], authorized)

-----------------------------------------------------------------------------
(* State machine: one process calling get_gmail_service and get_account_keys
   on one token file *)

\* A record stored before the program first runs: access token 1 and a
\* null refresh token
StoredRecord == ToJson(Creds(1, 0))

\* The account key recorded for a token that no invocation obtained
Stored == "<stored>"

\* The history before the first call on the file f: token 1 is the one of
\* StoredRecord
NoOrigin(f) == [fresh |-> ~f.exists, by |-> <<Stored>>]

\* The token file before the first call: absent, a multi-account file with
\* zero keys, or a multi-account file holding one account
InitFiles ==
    {NoFile, FileOf(Obj(<<>>)), FileOf(Obj(<<Entry("work", StoredRecord)>>))}

NoCall ==
    [op |-> "none", account |-> None, account_key |-> "default",
     before |-> NoFile, outcome |-> "none",
     found |-> FALSE, creds |-> NoCreds, valid |-> FALSE,
     expired |-> FALSE, refreshOk |-> FALSE,
     refreshes |-> 0, auths |-> 0, writes |-> 0, saved |-> Null,
     is_multi_file |-> FALSE, available |-> <<>>, keys |-> <<>>]

\* A process that is not in a call
IdleProc ==
    [pc |-> "idle", account |-> None, account_key |-> "default",
     existing_data |-> Null, is_multi_file |-> FALSE, creds |-> NoCreds,
     refresh |-> FALSE, token_json |-> Null, data |-> Null,
     outcome |-> "none", between |-> {}, overlap |-> {}]

Procs == {"A", "B"}

NoEvent == [proc |-> "none", kind |-> "none"]

\* The two-process model at rest
ConcIdle == procs = [p \in Procs |-> IdleProc] /\ event = NoEvent

\* No answer of the remote service
NoOutcome == [kind |-> "none", resp |-> FALSE, status |-> 0, value |-> "none"]

\* No request to the remote service
NoRequest ==
    [pc |-> "idle", site |-> "none", script |-> <<>>, attempt |-> 0,
     executes |-> 0, slept |-> <<>>, last_error |-> NoOutcome,
     result |-> "none", value |-> "none", error |-> NoOutcome]

\* The remote request model at rest
RetryIdle == call = NoRequest

\* The list argument labels: absent (None) or a list
NoLabels == [given |-> FALSE, list |-> <<>>]

LabelList(list) == [given |-> TRUE, list |-> list]

\* The filters of search_messages with every optional argument absent
NoFilters ==
    [is_unread |-> None, labels |-> NoLabels, from_email |-> None,
     to_email |-> None, subject |-> None, after |-> None, before |-> None,
     has_attachment |-> None, is_starred |-> None, is_important |-> None,
     in_trash |-> None]

NoSearch ==
    [op |-> "none", outcome |-> "none", filters |-> NoFilters,
     query_parts |-> <<>>, query |-> ""]

\* The search model at rest
QueryIdle == search = NoSearch

\* An optional string argument: absent (None) or a text
Absent == [given |-> FALSE, text |-> <<>>]

Text(text) == [given |-> TRUE, text |-> text]

NoReply ==
    [op |-> "none", to_header |-> <<>>, cc_header |-> <<>>,
     from_header |-> <<>>, sender |-> <<>>, to_arg |-> Absent,
     cc_arg |-> Absent, reply_all |-> FALSE, to |-> <<>>,
     reply_all_cc |-> <<>>, cc_list |-> <<>>, cc |-> Absent]

\* The reply model at rest
ReplyIdle == reply = NoReply

\* The list argument attachment_paths: absent (None) or a list; a path is
\* modelled by whether a file exists at it
NoAttachments == [given |-> FALSE, list |-> <<>>]

NoOutbound ==
    [op |-> "none", attachment_paths |-> NoAttachments, original_ok |-> FALSE,
     remote_ok |-> FALSE, attached |-> 0, requests |-> <<>>,
     outcome |-> "none"]

\* The outbound model at rest
OutboundIdle == outbound = NoOutbound

NoBatch ==
    [op |-> "none", message_ids |-> <<>>, service_ok |-> FALSE,
     attempted |-> <<>>, retrieved_emails |-> <<>>, error_emails |-> <<>>,
     outcome |-> "none", reported |-> <<>>, reported_errors |-> <<>>]

\* The batch model at rest
BatchIdle == batch = NoBatch

\* The keys of the dict _services: "__default__" or the account given
CacheKeys == (AccountNames \ {""}) \cup {"__default__"}

\* No handle
NoHandle == [id |-> 0, account_key |-> "default", token |-> 0]

NoServed ==
    [account |-> None, key |-> "__default__", hit |-> FALSE,
     outcome |-> "none", handle |-> NoHandle, before |-> NoFile]

\* server.py just imported: _services is empty.  built counts the handles
\* built so far and runs, for each account key, the invocations of
\* get_gmail_service that returned a handle
NoServer ==
    [services |-> [key \in CacheKeys |-> NoHandle],
     built |-> 0,
     runs |-> [k \in AccountNames \ {""} |-> 0],
     served |-> NoServed]

\* The server model at rest
ServerIdle == server = NoServer

NoPath ==
    [op |-> "none", token_path |-> <<>>, multi_account_single_file |-> TRUE,
     account |-> None, result |-> <<>>]

\* The path model at rest
PathsIdle == paths = NoPath

Init ==
    /\ file \in InitFiles
    /\ issued = 1
    /\ last = NoCall
    /\ origin = NoOrigin(file)
    /\ ConcIdle
    /\ RetryIdle
    /\ QueryIdle
    /\ ReplyIdle
    /\ OutboundIdle
    /\ BatchIdle
    /\ ServerIdle
    /\ PathsIdle

CallGetGmailService ==
    \E account \in AccountArgs, expired \in BOOLEAN,
       refreshOk \in BOOLEAN, credFile \in BOOLEAN, authOk \in BOOLEAN :
        LET res == GetGmailService(file, issued, account, expired,
                                   refreshOk, credFile, authOk)
        IN  /\ res.issued <= MaxIssued
            /\ file' = res.file
            /\ issued' = res.issued
            /\ last' = [NoCall EXCEPT
                          !.op = "get_gmail_service",
                          !.account = account,
                          !.account_key = AccountKey(account),
                          !.before = file,
                          !.outcome = res.outcome,
                          !.found = res.found,
                          !.creds = res.creds,
                          !.valid = res.valid,
                          !.expired = expired,
                          !.refreshOk = refreshOk,
                          !.refreshes = res.refreshes,
                          !.auths = res.auths,
                          !.writes = res.writes,
                          !.saved = res.saved,
                          !.is_multi_file = res.is_multi_file,
                          !.available = res.available]
            /\ origin' = IF res.issued > issued
                         THEN [origin EXCEPT
                                 !.by = Append(@, AccountKey(account))]
                         ELSE origin
            /\ UNCHANGED <<concVars, retryVars, queryVars, laterVars>>

CallGetAccountKeys ==
    /\ last' = [NoCall EXCEPT !.op = "get_account_keys",
                              !.before = file,
                              !.keys = GetAccountKeys(file)]
    /\ UNCHANGED <<file, issued, origin>>
    /\ UNCHANGED <<concVars, retryVars, queryVars, laterVars>>

Next == CallGetGmailService \/ CallGetAccountKeys

Spec == Init /\ [][Next]_vars

-----------------------------------------------------------------------------
(* The Credential Store as it reads a file: its form by structural
   inspection, the keys it lists and the record it resolves for a key *)

LegacyForm(f) == f.exists /\ IsLegacyTokenFormat(f.data)

MultiForm(f) == f.exists /\ ~IsLegacyTokenFormat(f.data)

StoredKeys(f) == {GetAccountKeys(f)[i] : i \in 1..Len(GetAccountKeys(f))}

RecordOf(f, key) ==
    IF LegacyForm(f) THEN f.data ELSE Get(f.data, key)

\* The last call was get_gmail_service
Called == last.op = "get_gmail_service"

\* The account was given and names a key other than "default"
ExplicitOther == last.account # None /\ last.account_key # "default"

-----------------------------------------------------------------------------
(* Two processes, each in one invocation of get_gmail_service on the same
   token file.  Nothing in the code locks the file, so the steps of the two
   invocations interleave at every access of the file: the load (lines
   138-155), the refresh or authorization (lines 157-167, which do not touch
   the file), the re-read of _save_token_file (lines 95-101) and its write
   (lines 102-104), or the single write of its last branch (lines 105-107).
   A write is taken as one step: a reader never sees a half-written file.

   between and overlap are history: the records another process wrote
   between this process's load and the beginning of its save, and between
   its re-read and its write. *)

\* The token file before the two invocations: absent, a legacy file as a
\* first authorization without account leaves it, or a multi-account file
\* holding one account
ConcInitFiles ==
    {NoFile, FileOf(ToJson(Creds(1, 1))),
     FileOf(Obj(<<Entry("work", StoredRecord)>>))}

InitConc ==
    /\ file \in ConcInitFiles
    /\ issued = 1
    /\ last = NoCall
    /\ origin = NoOrigin(file)
    /\ ConcIdle
    /\ RetryIdle
    /\ QueryIdle
    /\ ReplyIdle
    /\ OutboundIdle
    /\ BatchIdle
    /\ ServerIdle
    /\ PathsIdle

\* Lines 134-157 in process p: read the file and resolve the credential
Load(p) ==
    \E account \in AccountArgs, expired \in BOOLEAN :
        LET r == Resolve(file, account) IN
        /\ procs[p].pc = "idle"
        /\ procs' = [procs EXCEPT ![p] =
              [IdleProc EXCEPT
                  !.account = account,
                  !.account_key = AccountKey(account),
                  !.existing_data = r.existing_data,
                  !.is_multi_file = r.is_multi_file,
                  !.creds = r.creds,
                  !.refresh = Refreshable(r.creds, expired),
                  !.pc = IF r.error = "none" /\ NeedsCredentials(r.creds, expired)
                         THEN "obtain" ELSE "done",
                  !.outcome = IF r.error # "none" THEN r.error
                              ELSE IF NeedsCredentials(r.creds, expired)
                              THEN "none" ELSE "ready"]]
        /\ event' = [proc |-> p, kind |-> "load"]
        /\ UNCHANGED <<file, issued>>
        /\ UNCHANGED <<seqVars, retryVars, queryVars, laterVars>>

\* Lines 158-167 in process p: refresh, or authorize interactively
Obtain(p) ==
    \E ok \in BOOLEAN, credFile \in BOOLEAN :
        LET me == procs[p]
            failure == IF me.refresh THEN "refresh_error"
                       ELSE IF ~credFile THEN "no_credentials_file"
                       ELSE "auth_error"
            creds == IF me.refresh
                     THEN Creds(issued + 1, me.creds.refresh_token)
                     ELSE Creds(issued + 1, issued + 1)
        IN
        /\ me.pc = "obtain"
        /\ issued < MaxIssued
        /\ IF ok /\ (me.refresh \/ credFile)
           THEN /\ procs' = [procs EXCEPT ![p].pc = "save",
                                          ![p].token_json = ToJson(creds)]
                /\ issued' = issued + 1
           ELSE /\ procs' = [procs EXCEPT ![p].pc = "done",
                                          ![p].outcome = failure]
                /\ UNCHANGED issued
        /\ event' = [proc |-> p, kind |-> "obtain"]
        /\ UNCHANGED file
        /\ UNCHANGED <<seqVars, retryVars, queryVars, laterVars>>

\* The processes after process p wrote the file f2: p is done, and every
\* other process notes p's record in its history
AfterWrite(p, f2) ==
    LET mine == Entry(procs[p].account_key, procs[p].token_json)
        stored == /\ mine.k \in StoredKeys(f2)
                  /\ RecordOf(f2, mine.k) = mine.v
    IN  [q \in Procs |->
            IF q = p
            THEN [procs[q] EXCEPT !.pc = "done", !.outcome = "ready"]
            ELSE [procs[q] EXCEPT
                    !.between =
                        IF procs[q].pc \in {"obtain", "save"} /\ stored
                        THEN @ \cup {mine} ELSE @,
                    !.overlap =
                        IF procs[q].pc = "write"
                           /\ mine.k # procs[q].account_key
                        THEN @ \cup {mine} ELSE @]]

\* Lines 169-170 and 91-101, 105-107 in process p: the save begins.  On the
\* merging branch it re-reads the file; on the last branch it writes the
\* record at the root without reading
SaveBegin(p) ==
    LET me == procs[p] IN
    /\ me.pc = "save"
    /\ IF me.is_multi_file \/ LegacyWithOther(me.existing_data, me.account_key)
       THEN /\ procs' = [procs EXCEPT ![p].pc = "write",
                                      ![p].data = Reread(file)]
            /\ event' = [proc |-> p, kind |-> "reread"]
            /\ UNCHANGED file
       ELSE /\ file' = FileOf(me.token_json)
            /\ procs' = AfterWrite(p, file')
            /\ event' = [proc |-> p, kind |-> "write"]
    /\ UNCHANGED issued
    /\ UNCHANGED <<seqVars, retryVars, queryVars, laterVars>>

\* Lines 102-104 in process p: the write of the merging branch
SaveWrite(p) ==
    LET me == procs[p] IN
    /\ me.pc = "write"
    /\ file' = WriteMerged(me.data, file, me.token_json, me.account_key)
    /\ procs' = AfterWrite(p, file')
    /\ event' = [proc |-> p, kind |-> "write"]
    /\ UNCHANGED issued
    /\ UNCHANGED <<seqVars, retryVars, queryVars, laterVars>>

NextConc ==
    \E p \in Procs : Load(p) \/ Obtain(p) \/ SaveBegin(p) \/ SaveWrite(p)

SpecConc == InitConc /\ [][NextConc]_vars

\* Process p has just completed the write of its save
JustSaved(p) == event = [proc |-> p, kind |-> "write"]

-----------------------------------------------------------------------------
(* Requests to the remote mail service.  A request is built by one of the
   operations and executed either through _execute_with_retry or by calling
   request.execute() directly.  The remote service is the environment: its
   answers to the first, second and third execution of the request are the
   script of the call, and the call consumes as many of them as it makes
   executions.  An answer is a result (kind "ok", with a value), an
   HttpError (kind "http", with or without a response status) or another
   exception (kind "other", which _execute_with_retry does not catch). *)

\* The default of the parameter max_retries; no caller passes another value
MaxRetries == 3

\* Response statuses an HttpError can carry
Statuses == {0, 404, 429, 499, 500, 599, 600}

Ok(value) == [kind |-> "ok", resp |-> TRUE, status |-> 200, value |-> value]

HttpError(resp, status) ==
    [kind |-> "http", resp |-> resp, status |-> status, value |-> "none"]

OtherError == [kind |-> "other", resp |-> FALSE, status |-> 0, value |-> "none"]

Outcomes ==
    {Ok("a"), Ok("b"), OtherError, HttpError(FALSE, 0)}
        \cup {HttpError(TRUE, status) : status \in Statuses}

Scripts == [1..MaxRetries -> Outcomes]

\* Line 52: the status of the error's response, 0 when there is none
StatusOf(e) == IF e.resp /\ e.status # 0 THEN e.status ELSE 0

\* Faulty variant: every error status leads to another attempt
RetryableAny(status) == TRUE

\* Line 53
Retryable(status) == status = 429 \/ (500 <= status /\ status < 600)

\* Faulty variant: no attempt is followed by another
MayRetryNever(attempt) == FALSE

\* Line 54: the attempt (counted from 0) is not the last one
MayRetry(attempt) == attempt < MaxRetries - 1

RECURSIVE Pow2(_)
Pow2(n) == IF n = 0 THEN 1 ELSE 2 * Pow2(n - 1)

\* Faulty variant: the delay after the failed attempt is 2^(attempt + 1)
BackoffFromTwo(attempt) == Pow2(attempt + 1)

\* Line 55: the delay slept after the failed attempt (counted from 0)
Backoff(attempt) == Pow2(attempt)

\* The places of the source that execute a request, by the function they
\* are in; update_label executes two requests
RetrySites ==
    {"send_email", "send_reply", "get_labels", "list_messages",
     "get_message", "get_thread", "send_draft", "list_attachments"}

DirectSites ==
    {"create_draft", "create_reply_draft", "list_drafts", "get_draft",
     "create_label", "update_label.get", "update_label.update",
     "delete_label", "modify_message_labels",
     "batch_modify_messages_labels", "trash_message", "untrash_message",
     "get_attachment", "get_message_history", "getProfile"}

Sites == RetrySites \cup DirectSites

\* Faulty variant: no request goes through _execute_with_retry
ThroughRetryNever(site) == FALSE

\* The request of this site is passed to _execute_with_retry
ThroughRetry(site) == site \in RetrySites

InitRetry ==
    /\ file = NoFile
    /\ issued = 1
    /\ last = NoCall
    /\ origin = NoOrigin(file)
    /\ ConcIdle
    /\ RetryIdle
    /\ QueryIdle
    /\ ReplyIdle
    /\ OutboundIdle
    /\ BatchIdle
    /\ ServerIdle
    /\ PathsIdle

\* An operation builds a request; the remote service will answer its
\* executions by the script
StartRequest ==
    /\ call.pc = "idle"
    /\ \E site \in Sites, script \in Scripts :
          call' = [NoRequest EXCEPT !.pc = "running",
                                    !.site = site,
                                    !.script = script]
    /\ UNCHANGED <<storeVars, concVars, queryVars, laterVars>>

Raise(c, e) == [c EXCEPT !.pc = "done", !.result = "raised", !.error = e]

Return(c, value) ==
    [c EXCEPT !.pc = "done", !.result = "returned", !.value = value]

\* One iteration of the loop of _execute_with_retry (lines 47-57), or the
\* statements after the loop (lines 58-59)
RetryStep ==
    /\ call.pc = "running"
    /\ ThroughRetry(call.site)
    /\ IF call.attempt < MaxRetries
       THEN LET answer == call.script[call.executes + 1]
                c == [call EXCEPT !.executes = @ + 1]
                failed == [c EXCEPT !.last_error = answer]
            IN  call' =
                  IF answer.kind = "ok" THEN Return(c, answer.value)
                  ELSE IF answer.kind = "other" THEN Raise(c, answer)
                  ELSE IF /\ Retryable(StatusOf(answer))
                          /\ MayRetry(call.attempt)
                  THEN [failed EXCEPT !.slept = Append(@, Backoff(call.attempt)),
                                      !.attempt = @ + 1]
                  ELSE Raise(failed, answer)
       ELSE call' = IF call.last_error # NoOutcome
                    THEN Raise(call, call.last_error)
                    ELSE Return(call, "none")
    /\ UNCHANGED <<storeVars, concVars, queryVars, laterVars>>

\* request.execute() called directly by the operation
ExecuteDirect ==
    /\ call.pc = "running"
    /\ ~ThroughRetry(call.site)
    /\ LET answer == call.script[1]
           c == [call EXCEPT !.executes = 1]
       IN  call' = IF answer.kind = "ok" THEN Return(c, answer.value)
                   ELSE Raise(c, answer)
    /\ UNCHANGED <<storeVars, concVars, queryVars, laterVars>>

NextRetry == StartRequest \/ RetryStep \/ ExecuteDirect

SpecRetry == InitRetry /\ [][NextRetry]_vars

\* The answer is a failure of the rate-limit or server-error class: an
\* HttpError whose response carries status 429 or a status in 500..599
Transient(answer) ==
    /\ answer.kind = "http"
    /\ answer.resp
    /\ (answer.status = 429 \/ answer.status \in 500..599)

\* The call has ended and went through _execute_with_retry
RetryDone == call.pc = "done" /\ ThroughRetry(call.site)

-----------------------------------------------------------------------------
(* search_messages: the query built from the filters.  A flag is None
   (absent), "True" or "False"; a text filter is None or a string; the
   query is the string the code joins, built with string concatenation. *)

Flags == {None, "True", "False"}

FlagNames ==
    {"is_unread", "has_attachment", "is_starred", "is_important", "in_trash"}

LabelNames == {"x", "y"}

LabelArgs ==
    {NoLabels, LabelList(<<>>), LabelList(<<"x">>), LabelList(<<"x", "y">>),
     LabelList(<<"y", "x">>)}

\* Truth value of an optional string: None and "" are false
Given(text) == text # None /\ text # ""

\* Lines 684-685: a given is_unread appends a clause, the empty string when
\* it is False
UnreadParts(f) ==
    IF f.is_unread # None
    THEN <<IF f.is_unread = "True" THEN "is:unread" ELSE "">>
    ELSE <<>>

\* Lines 688-690: one clause per label
LabelParts(f) ==
    IF f.labels.given /\ f.labels.list # <<>>
    THEN [i \in 1..Len(f.labels.list) |-> "label:" \o f.labels.list[i]]
    ELSE <<>>

\* Lines 693-706: the text filters
TextPart(prefix, text) == IF Given(text) THEN <<prefix \o text>> ELSE <<>>

\* Lines 709-720: a flag that is given and True appends its clause
FlagPart(flag, clause) == IF flag # None /\ flag = "True" THEN <<clause>> ELSE <<>>

\* Faulty variant: the sender clause is appended before the label clauses
QueryPartsFromFirst(f) ==
    UnreadParts(f)
        \o TextPart("from:", f.from_email)
        \o LabelParts(f)
        \o TextPart("to:", f.to_email)
        \o TextPart("subject:", f.subject)
        \o TextPart("after:", f.after)
        \o TextPart("before:", f.before)
        \o FlagPart(f.has_attachment, "has:attachment")
        \o FlagPart(f.is_starred, "is:starred")
        \o FlagPart(f.is_important, "is:important")
        \o FlagPart(f.in_trash, "in:trash")

\* Lines 681-720: query_parts
QueryParts(f) ==
    UnreadParts(f)
        \o LabelParts(f)
        \o TextPart("from:", f.from_email)
        \o TextPart("to:", f.to_email)
        \o TextPart("subject:", f.subject)
        \o TextPart("after:", f.after)
        \o TextPart("before:", f.before)
        \o FlagPart(f.has_attachment, "has:attachment")
        \o FlagPart(f.is_starred, "is:starred")
        \o FlagPart(f.is_important, "is:important")
        \o FlagPart(f.in_trash, "in:trash")

\* " ".join(parts)
RECURSIVE Join(_)
Join(parts) ==
    IF parts = <<>> THEN ""
    ELSE IF Len(parts) = 1 THEN parts[1]
    ELSE parts[1] \o " " \o Join(Tail(parts))

\* Line 723
Query(f) == Join(QueryParts(f))

\* The dates among the inputs that match YYYY/MM/DD and name a real date
RealDates == {"2024/01/01", "2024/12/31"}

\* validate_date_format of server.py
ValidateDateFormat(date_str) == ~Given(date_str) \/ date_str \in RealDates

InitQuery ==
    /\ file = NoFile
    /\ issued = 1
    /\ last = NoCall
    /\ origin = NoOrigin(file)
    /\ ConcIdle
    /\ RetryIdle
    /\ QueryIdle
    /\ ReplyIdle
    /\ OutboundIdle
    /\ BatchIdle
    /\ ServerIdle
    /\ PathsIdle

Searched(op, f) ==
    [op |-> op, outcome |-> "searched", filters |-> f,
     query_parts |-> QueryParts(f), query |-> Query(f)]

\* search_messages called with any filters
SearchMessages ==
    /\ search.op = "none"
    /\ \E is_unread \in Flags, labels \in LabelArgs,
          from_email \in {None, "", "a@b.com"}, to_email \in {None, "c@d.com"},
          subject \in {None, "hi"}, after \in {None, "2024/01/01"},
          before \in {None, "2024/12/31"}, has_attachment \in Flags,
          is_starred \in Flags, is_important \in Flags, in_trash \in Flags :
          search' = Searched("search_messages",
              [is_unread |-> is_unread, labels |-> labels,
               from_email |-> from_email, to_email |-> to_email,
               subject |-> subject, after |-> after, before |-> before,
               has_attachment |-> has_attachment, is_starred |-> is_starred,
               is_important |-> is_important, in_trash |-> in_trash])
    /\ UNCHANGED <<storeVars, concVars, retryVars, laterVars>>

\* The tool search_emails of server.py: it validates the dates and passes
\* its arguments on, its two flags as booleans and its label as a list
SearchEmails ==
    /\ search.op = "none"
    /\ \E from_email \in {None, "a@b.com"}, to_email \in {None, "c@d.com"},
          subject \in {None, "hi"},
          has_attachment \in {"True", "False"}, is_unread \in {"True", "False"},
          after_date \in {None, "2024/01/01", "2024/13/01"},
          before_date \in {None, "2024/12/31", "tomorrow"},
          label \in {None, "", "x"} :
          LET f == [NoFilters EXCEPT
                      !.from_email = from_email,
                      !.to_email = to_email,
                      !.subject = subject,
                      !.has_attachment = has_attachment,
                      !.is_unread = is_unread,
                      !.after = after_date,
                      !.before = before_date,
                      !.labels = IF Given(label) THEN LabelList(<<label>>)
                                 ELSE NoLabels]
          IN  search' =
                IF ~ValidateDateFormat(after_date)
                   \/ ~ValidateDateFormat(before_date)
                THEN [NoSearch EXCEPT !.op = "search_emails",
                                      !.outcome = "date_error",
                                      !.filters = f]
                ELSE Searched("search_emails", f)
    /\ UNCHANGED <<storeVars, concVars, retryVars, laterVars>>

NextQuery == SearchMessages \/ SearchEmails

SpecQuery == InitQuery /\ [][NextQuery]_vars

\* A query was built
Built == search.outcome = "searched"

-----------------------------------------------------------------------------
(* create_reply_message: the Cc of a reply.  A header value is a string,
   modelled as the sequence of its characters, where a character is one of
   "," " " "<" ">" "q" (a double quote), "n" (the text of a display name)
   or a letter that stands for the whole of an address: "a" and "A" are the
   same mailbox written in lower and in mixed case.  The headers searched
   with hold addresses as mail clients write them: bare, with a display
   name, and with a quoted display name that contains a comma. *)

Mailboxes == {"a", "b", "c", "d"}

\* str.lower() on one character
LowerChar(ch) ==
    IF ch = "A" THEN "a" ELSE IF ch = "B" THEN "b"
    ELSE IF ch = "C" THEN "c" ELSE IF ch = "D" THEN "d" ELSE ch

Lower(text) == [i \in 1..Len(text) |-> LowerChar(text[i])]

Contains(text, ch) == \E i \in 1..Len(text) : text[i] = ch

\* str.index(ch): the first position of ch
IndexOf(text, ch) ==
    CHOOSE i \in 1..Len(text) :
        text[i] = ch /\ \A j \in 1..(i - 1) : text[j] # ch

RECURSIVE LStrip(_)
LStrip(text) ==
    IF text # <<>> /\ Head(text) = " " THEN LStrip(Tail(text)) ELSE text

RECURSIVE RStrip(_)
RStrip(text) ==
    IF text # <<>> /\ text[Len(text)] = " "
    THEN RStrip(SubSeq(text, 1, Len(text) - 1)) ELSE text

\* str.strip()
Strip(text) == RStrip(LStrip(text))

\* str.split(",")
RECURSIVE Split(_)
Split(text) ==
    IF ~Contains(text, ",") THEN <<text>>
    ELSE LET i == IndexOf(text, ",")
         IN  <<SubSeq(text, 1, i - 1)>> \o Split(SubSeq(text, i + 1, Len(text)))

\* ", ".join(list)
RECURSIVE JoinAddresses(_)
JoinAddresses(list) ==
    IF list = <<>> THEN <<>>
    ELSE IF Len(list) = 1 THEN list[1]
    ELSE list[1] \o <<",", " ">> \o JoinAddresses(Tail(list))

\* _parse_email_addresses
ParseEmailAddresses(header_value) ==
    IF header_value = <<>> THEN <<>>
    ELSE LET pieces == Split(header_value)
             stripped == [i \in 1..Len(pieces) |-> Strip(pieces[i])]
         IN  SelectSeq(stripped, LAMBDA addr : addr # <<>>)

\* Faulty variant: the address is compared as written, case kept
ExtractEmailKeepCase(address) ==
    IF Contains(address, "<") /\ Contains(address, ">")
    THEN SubSeq(address, IndexOf(address, "<") + 1, IndexOf(address, ">") - 1)
    ELSE Strip(address)

\* _extract_email
ExtractEmail(address) ==
    IF Contains(address, "<") /\ Contains(address, ">")
    THEN Lower(SubSeq(address, IndexOf(address, "<") + 1,
                      IndexOf(address, ">") - 1))
    ELSE Lower(Strip(address))

\* Lines 388-404: the original To and Cc recipients without the sender and
\* the recipient of the reply
ReplyAllCc(to_header, cc_header, sender, to) ==
    LET sender_email == ExtractEmail(sender)
        to_email == ExtractEmail(to)
        all_recipients ==
            ParseEmailAddresses(to_header) \o ParseEmailAddresses(cc_header)
    IN  SelectSeq(all_recipients,
                  LAMBDA addr : ExtractEmail(addr) \notin {sender_email, to_email})

\* Lines 408-413: the loop that appends to explicit_cc the reply-all
\* addresses whose address is not among the explicit ones; explicit_emails
\* is computed once, before the loop
RECURSIVE MergeCc(_, _, _)
MergeCc(explicit_cc, explicit_emails, reply_all_cc) ==
    IF reply_all_cc = <<>> THEN explicit_cc
    ELSE MergeCc(IF ExtractEmail(Head(reply_all_cc)) \notin explicit_emails
                 THEN Append(explicit_cc, Head(reply_all_cc))
                 ELSE explicit_cc,
                 explicit_emails, Tail(reply_all_cc))

\* Lines 406-416: the list of addresses the Cc of a reply-all is joined from
CcList(cc_arg, reply_all_cc) ==
    IF cc_arg.given /\ cc_arg.text # <<>>
    THEN LET explicit_cc == ParseEmailAddresses(cc_arg.text)
             explicit_emails ==
                 {ExtractEmail(explicit_cc[i]) : i \in 1..Len(explicit_cc)}
         IN  MergeCc(explicit_cc, explicit_emails, reply_all_cc)
    ELSE reply_all_cc

\* An address as a header holds it: bare, with a display name, or with a
\* quoted display name that contains a comma
Bare(x) == <<x>>

Named(x) == <<"n", " ", "<", x, ">">>

QuotedNamed(x) == <<"q", "n", ",", " ", "n", "q", " ", "<", x, ">">>

ToEntries ==
    {Bare("a"), Bare("b"), Bare("c"), Bare("B"), Bare("C"),
     Named("a"), Named("B"), Named("c"), QuotedNamed("b")}

CcEntries ==
    {Bare("a"), Bare("b"), Bare("c"), Bare("C"), Named("c"), Bare("d")}

\* The mailboxes a text names, whatever their case and display names
MailboxesIn(text) ==
    {LowerChar(text[i]) : i \in {j \in 1..Len(text) : LowerChar(text[j]) \in Mailboxes}}

\* Header values of at most two addresses, of different mailboxes
ToHeaders ==
    {<<>>} \cup ToEntries
        \cup {pair[1] \o <<",", " ">> \o pair[2] :
                 pair \in {p \in ToEntries \X ToEntries :
                              MailboxesIn(p[1]) # MailboxesIn(p[2])}}

CcHeaders == {<<>>} \cup CcEntries

InitReply ==
    /\ file = NoFile
    /\ issued = 1
    /\ last = NoCall
    /\ origin = NoOrigin(file)
    /\ ConcIdle
    /\ RetryIdle
    /\ QueryIdle
    /\ ReplyIdle
    /\ OutboundIdle
    /\ BatchIdle
    /\ ServerIdle
    /\ PathsIdle

\* Lines 379-416 of create_reply_message: the recipient and the Cc of the
\* reply, from the headers of the original message and the arguments
BuildReplyCc ==
    /\ reply.op = "none"
    /\ \E to_header \in ToHeaders, cc_header \in CcHeaders,
          reply_to \in {Absent, Text(Bare("d"))},
          sender \in {Bare("b"), Bare("B"), Named("b")},
          to_arg \in {Absent, Text(Bare("c"))},
          cc_arg \in {Absent, Text(<<>>), Text(Bare("c")),
                      Text(Named("C") \o <<",", " ">> \o Bare("d"))},
          reply_all \in BOOLEAN :
          LET from_header == Named("A")
              to == IF to_arg.given THEN to_arg.text
                    ELSE IF reply_to.given THEN reply_to.text
                    ELSE from_header
              reply_all_cc == ReplyAllCc(to_header, cc_header, sender, to)
              cc_list == CcList(cc_arg, reply_all_cc)
          IN  reply' =
                [op |-> "create_reply_message",
                 to_header |-> to_header, cc_header |-> cc_header,
                 from_header |-> from_header, sender |-> sender,
                 to_arg |-> to_arg, cc_arg |-> cc_arg,
                 reply_all |-> reply_all, to |-> to,
                 reply_all_cc |-> IF reply_all THEN reply_all_cc ELSE <<>>,
                 cc_list |-> IF reply_all THEN cc_list ELSE <<>>,
                 cc |-> IF reply_all
                           /\ ((cc_arg.given /\ cc_arg.text # <<>>)
                                 \/ reply_all_cc # <<>>)
                        THEN Text(JoinAddresses(cc_list))
                        ELSE cc_arg]
    /\ UNCHANGED <<storeVars, concVars, retryVars, replyRest>>

NextReply == BuildReplyCc

SpecReply == InitReply /\ [][NextReply]_vars

\* A reply-all was built
RepliedAll == reply.op = "create_reply_message" /\ reply.reply_all

-----------------------------------------------------------------------------
(* Outbound messages: send_email, create_draft, send_reply and
   create_reply_draft assemble a message, attaching the files of
   attachment_paths, and then issue one request.  The reply operations first
   fetch the original message.  requests is the sequence of requests issued
   to the remote service; how a request is executed is the matter of
   SpecRetry, and here the remote service answers it or fails. *)

MaxAttachments == 3

AttachmentLists ==
    UNION {[1..n -> BOOLEAN] : n \in 0..MaxAttachments}

AttachmentArgs ==
    {NoAttachments} \cup {[given |-> TRUE, list |-> l] : l \in AttachmentLists}

\* Faulty variant: only the first path is looked at
FirstMissingOnlyFirst(list) == IF list # <<>> /\ ~list[1] THEN 1 ELSE 0

\* The loop over attachment_paths: the position of the first path at which
\* no file exists, 0 when every file exists
FirstMissing(list) ==
    IF \A i \in 1..Len(list) : list[i] THEN 0
    ELSE CHOOSE i \in 1..Len(list) :
            ~list[i] /\ \A j \in 1..(i - 1) : list[j]

InitOutbound ==
    /\ file = NoFile
    /\ issued = 1
    /\ last = NoCall
    /\ origin = NoOrigin(file)
    /\ ConcIdle
    /\ RetryIdle
    /\ QueryIdle
    /\ ReplyIdle
    /\ OutboundIdle
    /\ BatchIdle
    /\ ServerIdle
    /\ PathsIdle

\* One outbound operation: fetch is the request that reads the original
\* message (none for a new message), request the one that sends or creates
Outbound(op, fetch, request, done) ==
    /\ outbound.op = "none"
    /\ \E attachment_paths \in AttachmentArgs,
          original_ok \in BOOLEAN, remote_ok \in BOOLEAN :
          LET list == attachment_paths.list
              missing == IF attachment_paths.given /\ list # <<>>
                         THEN FirstMissing(list) ELSE 0
              fetched == IF fetch = "none" THEN <<>> ELSE <<fetch>>
              o == [NoOutbound EXCEPT !.op = op,
                                      !.attachment_paths = attachment_paths,
                                      !.original_ok = original_ok,
                                      !.remote_ok = remote_ok,
                                      !.requests = fetched]
          IN  outbound' =
                IF fetch # "none" /\ ~original_ok
                THEN [o EXCEPT !.outcome = "remote_error"]
                ELSE IF missing # 0
                THEN [o EXCEPT !.attached = missing - 1,
                               !.outcome = "attachment_not_found"]
                ELSE [o EXCEPT !.attached = Len(list),
                               !.requests = Append(fetched, request),
                               !.outcome = IF remote_ok THEN done
                                           ELSE "remote_error"]
    /\ UNCHANGED <<storeVars, concVars, retryVars, outboundRest>>

SendEmail == Outbound("send_email", "none", "messages.send", "sent")

CreateDraft == Outbound("create_draft", "none", "drafts.create", "drafted")

SendReply == Outbound("send_reply", "messages.get", "messages.send", "sent")

CreateReplyDraft ==
    Outbound("create_reply_draft", "messages.get", "drafts.create", "drafted")

NextOutbound == SendEmail \/ CreateDraft \/ SendReply \/ CreateReplyDraft

SpecOutbound == InitOutbound /\ [][NextOutbound]_vars

\* The requests that send a message or create a draft
Delivers(request) == request \in {"messages.send", "drafts.create"}

-----------------------------------------------------------------------------
(* get_emails of server.py.  A message id is modelled by its position in
   message_ids and by what the remote service holds for it: "ok", a message
   whose body decodes; "undecodable", a message that is fetched but whose
   body is not UTF-8, so that parse_message_body raises in .decode();
   "error", an id for which get_message raises.  retrieved_emails and
   error_emails hold positions. *)

MaxIds == 4

Items == {"ok", "undecodable", "error"}

IdLists == UNION {[1..n -> Items] : n \in 0..MaxIds}

\* Lines 753-758: the loop that fetches each id, catching every Exception
Positions(ids, kinds) ==
    SelectSeq([i \in 1..Len(ids) |-> i], LAMBDA i : ids[i] \in kinds)

\* Lines 764-766: format_message on each retrieved message, outside any
\* try: the position in retrieved_emails of the first message whose body
\* does not decode, 0 when all decode
FirstUnformattable(ids, retrieved) ==
    IF \A k \in 1..Len(retrieved) : ids[retrieved[k]] # "undecodable" THEN 0
    ELSE CHOOSE k \in 1..Len(retrieved) :
            /\ ids[retrieved[k]] = "undecodable"
            /\ \A j \in 1..(k - 1) : ids[retrieved[j]] # "undecodable"

InitBatch ==
    /\ file = NoFile
    /\ issued = 1
    /\ last = NoCall
    /\ origin = NoOrigin(file)
    /\ ConcIdle
    /\ RetryIdle
    /\ QueryIdle
    /\ ReplyIdle
    /\ OutboundIdle
    /\ BatchIdle
    /\ ServerIdle
    /\ PathsIdle

GetEmails ==
    /\ batch.op = "none"
    /\ \E message_ids \in IdLists, service_ok \in BOOLEAN :
          LET b == [NoBatch EXCEPT !.op = "get_emails",
                                   !.message_ids = message_ids,
                                   !.service_ok = service_ok]
              retrieved == Positions(message_ids, {"ok", "undecodable"})
              errors == Positions(message_ids, {"error"})
              fetched == [b EXCEPT !.attempted = [i \in 1..Len(message_ids) |-> i],
                                   !.retrieved_emails = retrieved,
                                   !.error_emails = errors]
          IN  batch' =
                IF message_ids = <<>> THEN [b EXCEPT !.outcome = "no_ids"]
                ELSE IF ~service_ok THEN [b EXCEPT !.outcome = "service_error"]
                ELSE IF FirstUnformattable(message_ids, retrieved) # 0
                THEN [fetched EXCEPT !.outcome = "raised"]
                ELSE [fetched EXCEPT !.outcome = "returned",
                                     !.reported = retrieved,
                                     !.reported_errors = errors]
    /\ UNCHANGED <<storeVars, concVars, retryVars, batchRest>>

NextBatch == GetEmails

SpecBatch == InitBatch /\ [][NextBatch]_vars

\* get_emails was called with ids and obtained its service handle
Batched ==
    batch.op = "get_emails" /\ batch.message_ids # <<>> /\ batch.service_ok

\* The positions a list holds
Range(list) == {list[i] : i \in 1..Len(list)}

-----------------------------------------------------------------------------
(* get_service of server.py, with the setting multi_account_single_file at
   its default True: every account uses the one token file.  A handle is
   the object build() returns: each call of build() makes a new one. *)

\* Line 49: key = account or "__default__"
CacheKey(account) ==
    IF account = None \/ account = "" THEN "__default__" ELSE account

InitServer ==
    /\ file \in InitFiles
    /\ issued = 1
    /\ last = NoCall
    /\ origin = NoOrigin(file)
    /\ ConcIdle
    /\ RetryIdle
    /\ QueryIdle
    /\ ReplyIdle
    /\ OutboundIdle
    /\ BatchIdle
    /\ ServerIdle
    /\ PathsIdle

\* get_service(account)
GetService ==
    /\ \E account \in AccountArgs :
           LET key == CacheKey(account)
               served == [NoServed EXCEPT !.account = account,
                                          !.key = key,
                                          !.before = file]
           IN  IF key \in CacheKeys /\ server.services[key] # NoHandle
               THEN /\ server' = [server EXCEPT
                           !.served = [served EXCEPT
                                          !.hit = TRUE,
                                          !.outcome = "ready",
                                          !.handle = server.services[key]]]
                    /\ UNCHANGED <<file, issued>>
               ELSE \E expired \in BOOLEAN, refreshOk \in BOOLEAN,
                       credFile \in BOOLEAN, authOk \in BOOLEAN :
                       LET res == GetGmailService(file, issued, account, expired,
                                                  refreshOk, credFile, authOk)
                           handle == [id |-> server.built + 1,
                                      account_key |-> AccountKey(account),
                                      token |-> IF res.writes = 1
                                                THEN res.issued
                                                ELSE res.creds.token]
                       IN  /\ res.issued <= MaxIssued
                           /\ file' = res.file
                           /\ issued' = res.issued
                           /\ server' =
                                IF res.outcome = "ready"
                                THEN [server EXCEPT
                                        !.services[key] = handle,
                                        !.built = @ + 1,
                                        !.runs[AccountKey(account)] = @ + 1,
                                        !.served = [served EXCEPT
                                                      !.outcome = "ready",
                                                      !.handle = handle]]
                                ELSE [server EXCEPT
                                        !.served = [served EXCEPT
                                                      !.outcome = res.outcome]]
    /\ UNCHANGED <<last, origin, concVars, retryVars, serverRest>>

NextServer == GetService

SpecServer == InitServer /\ [][NextServer]_vars

-----------------------------------------------------------------------------
(* get_token_path_for_account of config.py.  A path is the sequence of its
   characters: "/" the separator, "." the extension separator, and letters
   that stand for a run of other characters; an account is one such run. *)

\* The last position of ch in text, 0 when there is none (str.rfind + 1)
LastIndexOf(text, ch) ==
    IF Contains(text, ch)
    THEN CHOOSE i \in 1..Len(text) :
            text[i] = ch /\ \A j \in (i + 1)..Len(text) : text[j] # ch
    ELSE 0

\* os.path.splitext: the extension starts at the last dot of the last
\* component, unless only dots precede it in that component
Splitext(path) ==
    LET sepIndex == LastIndexOf(path, "/")
        dotIndex == LastIndexOf(path, ".")
    IN  IF /\ dotIndex > sepIndex
           /\ \E k \in (sepIndex + 1)..(dotIndex - 1) : path[k] # "."
        THEN [base |-> SubSeq(path, 1, dotIndex - 1),
              ext |-> SubSeq(path, dotIndex, Len(path))]
        ELSE [base |-> path, ext |-> <<>>]

\* Faulty variant: the suffix is appended after the extension
TokenPathSuffixLast(token_path, multi_account_single_file, account) ==
    IF multi_account_single_file THEN token_path
    ELSE IF account = None \/ account = "" THEN token_path
    ELSE token_path \o <<"_", account>>

\* Lines 69-75 of get_token_path_for_account, s.token_path and
\* s.multi_account_single_file being the settings read at line 69
TokenPathForAccount(token_path, multi_account_single_file, account) ==
    IF multi_account_single_file THEN token_path
    ELSE IF account = None \/ account = "" THEN token_path
    ELSE Splitext(token_path).base \o <<"_", account>>
            \o Splitext(token_path).ext

\* Configured token paths: token.json, token, .token, dir.d/token,
\* dir/token.json, token.bak.json, dir/.token, token. and ..token.json
TokenPaths ==
    {<<"t", ".", "j">>, <<"t">>, <<".", "t">>, <<"d", ".", "d", "/", "t">>,
     <<"d", "/", "t", ".", "j">>, <<"t", ".", "b", ".", "j">>,
     <<"d", "/", ".", "t">>, <<"t", ".">>, <<".", ".", "t", ".", "j">>}

InitPaths ==
    /\ file = NoFile
    /\ issued = 1
    /\ last = NoCall
    /\ origin = NoOrigin(file)
    /\ ConcIdle
    /\ RetryIdle
    /\ QueryIdle
    /\ ReplyIdle
    /\ OutboundIdle
    /\ BatchIdle
    /\ ServerIdle
    /\ PathsIdle

GetTokenPathForAccount ==
    /\ paths.op = "none"
    /\ \E token_path \in TokenPaths, multi_account_single_file \in BOOLEAN,
          account \in AccountArgs :
          paths' = [op |-> "get_token_path_for_account",
                    token_path |-> token_path,
                    multi_account_single_file |-> multi_account_single_file,
                    account |-> account,
                    result |-> TokenPathForAccount(token_path,
                                   multi_account_single_file, account)]
    /\ UNCHANGED <<storeVars, concVars, retryVars, pathsRest>>

NextPaths == GetTokenPathForAccount

SpecPaths == InitPaths /\ [][NextPaths]_vars

-----------------------------------------------------------------------------
(* Claims *)

\* C1 (no-clobber): whenever an invocation of get_gmail_service writes the
\* file for account key k, every other key stored before the write is
\* stored afterwards with the same record.
C1_NoClobber ==
    (Called /\ last.writes = 1) =>
        \A key \in StoredKeys(last.before) \ {last.account_key} :
            /\ key \in StoredKeys(file)
            /\ RecordOf(file, key) = RecordOf(last.before, key)

\* C2: a first authorization with no token file and an explicit non-default
\* account key leaves a multi-account file with exactly one key, that key.
C2_FirstAuthIsMulti ==
    (Called /\ ~last.before.exists /\ ExplicitOther /\ last.writes = 1) =>
        /\ MultiForm(file)
        /\ GetAccountKeys(file) = <<last.account_key>>
        /\ RecordOf(file, last.account_key) = last.saved

\* C3: on a legacy file, the explicit key "default" resolves to the root
\* record exactly as an omitted account does, and when that record is valid
\* the call neither authorizes nor writes.
C3_DefaultIsRoot ==
    (Called /\ LegacyForm(last.before) /\ last.account = "default") =>
        /\ last.outcome # "bad_token" => last.found
        /\ last.creds = Resolve(last.before, None).creds
        /\ Valid(Resolve(last.before, None).creds, last.expired) =>
              (last.auths = 0 /\ last.writes = 0 /\ file = last.before)

\* C4: on a legacy file, an explicit key other than "default" fails with an
\* unknown-account error naming the available keys, starts no authorization
\* and leaves the file unchanged.
C4_LegacyOtherKeyFails ==
    (Called /\ LegacyForm(last.before) /\ ExplicitOther) =>
        /\ last.outcome = "unknown_account"
        /\ last.available = <<"default">>
        /\ last.auths = 0
        /\ file = last.before

\* C4 as the code has it: on a legacy file, an explicit key other than
\* "default" raises no unknown-account error; the root record is not used,
\* no refresh is attempted, interactive authorization is started when the
\* application credentials file exists, and when it succeeds the file is
\* rewritten as the mapping of "default" to the former root record and of the
\* key to the new record; otherwise the file is unchanged.
C4_LegacyOtherKeyAuthorizes ==
    (Called /\ LegacyForm(last.before) /\ ExplicitOther) =>
        /\ last.outcome \in {"ready", "no_credentials_file", "auth_error"}
        /\ ~last.found
        /\ last.refreshes = 0
        /\ last.auths = (IF last.outcome = "no_credentials_file" THEN 0 ELSE 1)
        /\ last.outcome = "ready" =>
              /\ last.writes = 1
              /\ file = FileOf(Obj(<<Entry("default", last.before.data),
                                     Entry(last.account_key, last.saved)>>))
        /\ last.outcome # "ready" => (last.writes = 0 /\ file = last.before)

C4_Witness ==
    /\ Called /\ LegacyForm(last.before) /\ ExplicitOther
    /\ last.outcome = "ready"
    /\ Keys(file.data) = <<"default", "work">>

\* C5: a save under a non-default key k against a legacy file leaves a
\* multi-account file with exactly the keys "default", holding the former
\* root record, and k, holding the new record.
C5_LegacyUpgrade ==
    (Called /\ LegacyForm(last.before) /\ last.account_key # "default"
            /\ last.writes = 1) =>
        /\ MultiForm(file)
        /\ StoredKeys(file) = {"default", last.account_key}
        /\ Len(GetAccountKeys(file)) = 2
        /\ RecordOf(file, "default") = last.before.data
        /\ RecordOf(file, last.account_key) = last.saved

\* C6 (round trip): after a save of record r under key k in a multi-account
\* file, the next resolve of k, however the account names k, yields r.
C6_RoundTrip ==
    (Called /\ MultiForm(last.before) /\ last.writes = 1) =>
        \A account \in AccountArgs :
            AccountKey(account) = last.account_key =>
                /\ Resolve(file, account).error = "none"
                /\ Resolve(file, account).creds
                       = FromAuthorizedUserInfo(last.saved).creds
                /\ Resolve(file, account).creds.some

C6_Witness ==
    /\ Called /\ MultiForm(last.before) /\ last.writes = 1
    /\ last.account_key = "work"
    /\ last.refreshes = 1
    /\ Len(Keys(file.data)) >= 2

\* C7: on a multi-account file, an explicit key that is not stored fails
\* with an error listing the available keys, with no refresh, no
\* authorization and no write.
C7_UnknownAccount ==
    (Called /\ MultiForm(last.before) /\ last.account # None
            /\ ~HasKey(last.before.data, last.account_key)) =>
        /\ last.outcome = "unknown_account"
        /\ last.available = Sorted(StoredKeys(last.before))
        /\ last.refreshes = 0 /\ last.auths = 0 /\ last.writes = 0
        /\ file = last.before

C7_Witness ==
    /\ Called /\ MultiForm(last.before) /\ last.account = "home"
    /\ ~HasKey(last.before.data, "home")
    /\ last.available = <<"default", "work">>

\* C8: an unknown key is always an error and never creates an entry; with
\* the account omitted and a multi-account file without "default", the call
\* fails, runs no authorization and adds no entry.
C8_OmittedUnknownFails ==
    (Called /\ MultiForm(last.before) /\ last.account = None
            /\ ~HasKey(last.before.data, "default")) =>
        /\ last.outcome = "unknown_account"
        /\ last.auths = 0
        /\ file = last.before

\* C8 as the code has it: on a multi-account file, an explicit key that is
\* not stored is an error and creates no entry; with the account omitted and
\* no "default" key stored the call raises no unknown-account error:
\* interactive authorization is started when the application credentials
\* file exists, and when it succeeds a "default" entry is appended, the other
\* entries being kept.
C8_OnlyExplicitUnknownFails ==
    (Called /\ MultiForm(last.before)
            /\ ~HasKey(last.before.data, last.account_key)) =>
        IF last.account # None
        THEN last.outcome = "unknown_account" /\ file = last.before
        ELSE /\ last.outcome \in {"ready", "no_credentials_file", "auth_error"}
             /\ last.auths = (IF last.outcome = "no_credentials_file" THEN 0 ELSE 1)
             /\ last.outcome = "ready" =>
                   file = FileOf(Obj(Append(last.before.data.o,
                                            Entry("default", last.saved))))
             /\ last.outcome # "ready" => file = last.before

C8_Witness ==
    /\ Called /\ MultiForm(last.before) /\ last.account = None
    /\ Keys(last.before.data) = <<"work">>
    /\ Keys(file.data) = <<"work", "default">>

C10_ValidIsReady ==
    (Called /\ last.found /\ ~last.expired) =>
        /\ last.outcome = "ready"
        /\ last.refreshes = 0 /\ last.auths = 0 /\ last.writes = 0
        /\ file = last.before

C10_Witness ==
    /\ Called /\ last.found /\ ~last.expired
    /\ last.account = "work"
    /\ last.creds.refresh_token # 0

\* C11: when the loaded credential is expired, has a refresh token, and the
\* refresh fails, the call ends in an error: one refresh attempt, no
\* interactive authorization, no handle, token file unchanged.
C11_RefreshFailureIsFatal ==
    (Called /\ last.found /\ last.expired /\ last.creds.refresh_token # 0
            /\ ~last.refreshOk) =>
        /\ last.outcome = "refresh_error"
        /\ last.refreshes = 1
        /\ last.auths = 0
        /\ last.writes = 0
        /\ file = last.before

C11_Witness ==
    /\ Called /\ last.found /\ last.expired /\ last.creds.refresh_token # 0
    /\ ~last.refreshOk
    /\ last.outcome = "refresh_error"
    /\ MultiForm(last.before)

\* C12: when the loaded credential is expired without a refresh token, or no
\* credential is found, the call never refreshes; it authorizes
\* interactively, persists the new record under the requested account key
\* and only then returns the handle.
C12_NoCredentialPath ==
    (Called /\ last.outcome \notin {"unknown_account", "bad_token"}
            /\ (~last.found
                \/ (last.expired /\ last.creds.refresh_token = 0))) =>
        /\ last.refreshes = 0
        /\ last.outcome \in {"ready", "no_credentials_file", "auth_error"}
        /\ last.outcome = "ready" =>
              /\ last.auths = 1
              /\ last.writes = 1
              /\ last.account_key \in StoredKeys(file)
              /\ RecordOf(file, last.account_key) = last.saved
        /\ last.outcome # "ready" => (last.writes = 0 /\ file = last.before)

\* The path of C12 without the key the record is filed under: no refresh,
\* one authorization, one write of the new record, then the handle
C12_PathOnly ==
    (Called /\ last.outcome \notin {"unknown_account", "bad_token"}
            /\ (~last.found
                \/ (last.expired /\ last.creds.refresh_token = 0))) =>
        /\ last.refreshes = 0
        /\ last.outcome \in {"ready", "no_credentials_file", "auth_error"}
        /\ last.outcome = "ready" =>
              (last.auths = 1 /\ last.writes = 1 /\ last.saved # Null)
        /\ last.outcome # "ready" => (last.writes = 0 /\ file = last.before)


\* C13: for two processes sharing the file, a record that process B wrote
\* under account key kB after process A loaded and before A began its save
\* for another key kA is still stored under kB once A's save has written.
C13_ReadMergeWrite ==
    \A p \in Procs :
        JustSaved(p) =>
            \A e \in procs[p].between :
                e.k # procs[p].account_key =>
                    /\ e.k \in StoredKeys(file)
                    /\ RecordOf(file, e.k) = e.v

\* C13 on the merging branch alone: a save that re-read the file writes back
\* what was written before it began
C13_MergingBranchOnly ==
    \A p \in Procs :
        (JustSaved(p) /\ procs[p].data # Null) =>
            \A e \in procs[p].between :
                e.k # procs[p].account_key => Get(file.data, e.k) = e.v

\* C14: the merging save is not lock-protected.  When another process wrote
\* a record under a different key between this process's re-read and its
\* write, this process's write stores its own record and the file no longer
\* holds the other record: the update is lost.
C14_LostUpdate ==
    \A p \in Procs :
        (JustSaved(p) /\ procs[p].data # Null) =>
            /\ Get(file.data, procs[p].account_key) = procs[p].token_json
            /\ \A e \in procs[p].overlap : Get(file.data, e.k) # e.v

\* Both processes saved different keys to a multi-account file, both re-read
\* before either wrote, and the file holds only the record of the second
\* writer
C14_Witness ==
    /\ JustSaved("A")
    /\ procs["A"].is_multi_file /\ procs["B"].is_multi_file
    /\ procs["A"].outcome = "ready" /\ procs["B"].outcome = "ready"
    /\ procs["A"].account_key # procs["B"].account_key
    /\ procs["A"].overlap =
          {Entry(procs["B"].account_key, procs["B"].token_json)}
    /\ MultiForm(file)
    /\ Get(file.data, procs["A"].account_key) = procs["A"].token_json
    /\ Get(file.data, procs["B"].account_key) # procs["B"].token_json


\* C15: _execute_with_retry executes the request at most 3 times.  When the
\* first answer that is not a transient failure (429 or 5xx) is a result
\* and comes within the first 3 answers, that result is returned and no
\* further execution is made; after 3 transient failures the error of the
\* third is raised.
C15_AtMostThreeAttempts ==
    /\ ThroughRetry(call.site) => call.executes <= 3
    /\ RetryDone =>
          /\ \A k \in 1..3 :
                (/\ \A j \in 1..(k - 1) : Transient(call.script[j])
                 /\ call.script[k].kind = "ok") =>
                    /\ call.result = "returned"
                    /\ call.value = call.script[k].value
                    /\ call.executes = k
          /\ (\A j \in 1..3 : Transient(call.script[j])) =>
                /\ call.result = "raised"
                /\ call.error = call.script[3]
                /\ call.executes = 3

\* 429, 429, success returns the success
C15_Witness ==
    /\ RetryDone
    /\ call.script = <<HttpError(TRUE, 429), HttpError(TRUE, 429), Ok("a")>>
    /\ call.result = "returned"
    /\ call.value = "a"
    /\ call.executes = 3

\* C16: a failure that is not an HttpError with status 429 or 5xx (an error
\* without status included) is raised at once, at whichever attempt it
\* occurs: it is the last answer consumed, it is the error raised, and no
\* delay is slept after it; every answer followed by another attempt is a
\* failure with status 429 or 5xx.
C16_OtherFailuresImmediate ==
    RetryDone =>
        /\ \A k \in 1..call.executes :
              (call.script[k].kind # "ok" /\ ~Transient(call.script[k])) =>
                  /\ k = call.executes
                  /\ call.result = "raised"
                  /\ call.error = call.script[k]
                  /\ Len(call.slept) = k - 1
        /\ \A k \in 1..(call.executes - 1) : Transient(call.script[k])

\* An error without status at the second attempt, after a 503-class failure
C16_Witness ==
    /\ RetryDone
    /\ call.script[1] = HttpError(TRUE, 500)
    /\ call.script[2] = HttpError(FALSE, 0)
    /\ call.executes = 2
    /\ call.result = "raised"
    /\ call.error = HttpError(FALSE, 0)
    /\ call.slept = <<1>>

\* C17: the delay slept before attempt k (attempts counted from 1) is
\* 2^(k-1) time units.
C17_DelayBeforeAttempt ==
    ThroughRetry(call.site) =>
        \A k \in 2..call.executes : call.slept[k - 1] = Pow2(k - 1)

\* C17 as the code has it: the backoff starts at 1 time unit and doubles on
\* each retry; the delay slept before attempt k (counted from 1, k >= 2) is
\* 2^(k-2) time units, that is 2^(k-1) after the k-th failed attempt, and no
\* delay follows the last attempt.
C17_DelayAfterAttempt ==
    ThroughRetry(call.site) =>
        /\ Len(call.slept) = call.attempt
        /\ Len(call.slept) <= 2
        /\ call.pc = "done" => Len(call.slept) = call.executes - 1
        /\ \A k \in 1..Len(call.slept) : call.slept[k] = Pow2(k - 1)

\* Three transient failures: delays 1 and 2 were slept, none after the third
C17_Witness ==
    /\ RetryDone
    /\ call.executes = 3
    /\ call.result = "raised"
    /\ call.slept = <<1, 2>>

\* C18: for every operation that calls the remote service, a single 429 or
\* 5xx answer followed by a success yields the successful result.
C18_EveryCallRetries ==
    (/\ call.pc = "done"
     /\ Transient(call.script[1])
     /\ call.script[2].kind = "ok") =>
        /\ call.result = "returned"
        /\ call.value = call.script[2].value

\* C18 for the operations whose request is passed to _execute_with_retry
C18_RetrySitesOnly ==
    (/\ RetryDone
     /\ Transient(call.script[1])
     /\ call.script[2].kind = "ok") =>
        /\ call.result = "returned"
        /\ call.value = call.script[2].value


\* The clauses a query can hold for the filter values searched with, in the
\* order unread, labels, from, to, subject, after, before, has-attachment,
\* starred, important, trash
ClauseOrder ==
    << {"is:unread"}, {"label:" \o l : l \in LabelNames}, {"from:a@b.com"},
       {"to:c@d.com"}, {"subject:hi"}, {"after:2024/01/01"},
       {"before:2024/12/31"}, {"has:attachment"}, {"is:starred"},
       {"is:important"}, {"in:trash"} >>

RankOf(clause) == CHOOSE r \in 1..Len(ClauseOrder) : clause \in ClauseOrder[r]

\* The clauses of the query built: its parts that are not empty
Clauses == SelectSeq(search.query_parts, LAMBDA part : part # "")

\* C19: the clauses of the query are in the fixed order unread, labels,
\* from, to, subject, after, before, has-attachment, starred, important,
\* trash; each filter contributes at most one clause and each label its own;
\* the filters {from_email: a@b.com, is_unread: true, labels: [x, y]} yield
\* exactly is:unread, label:x, label:y, from:a@b.com.
C19_FixedOrder ==
    Built =>
        LET cs == Clauses
            labelled == SelectSeq(cs, LAMBDA c : c \in ClauseOrder[2])
            f == search.filters
        IN  /\ \A i \in 1..Len(cs) :
                  \E r \in 1..Len(ClauseOrder) : cs[i] \in ClauseOrder[r]
            /\ \A i, j \in 1..Len(cs) :
                  i < j =>
                      \/ RankOf(cs[i]) < RankOf(cs[j])
                      \/ RankOf(cs[i]) = 2 /\ RankOf(cs[j]) = 2
            /\ labelled = [i \in 1..Len(f.labels.list) |->
                              "label:" \o f.labels.list[i]]
            /\ f = [NoFilters EXCEPT !.from_email = "a@b.com",
                                     !.is_unread = "True",
                                     !.labels = LabelList(<<"x", "y">>)] =>
                  /\ search.query_parts =
                        <<"is:unread", "label:x", "label:y", "from:a@b.com">>
                  /\ search.query = "is:unread label:x label:y from:a@b.com"

C19_Witness ==
    /\ Built
    /\ search.op = "search_messages"
    /\ search.filters = [NoFilters EXCEPT !.from_email = "a@b.com",
                                          !.is_unread = "True",
                                          !.labels = LabelList(<<"x", "y">>)]
    /\ search.query = "is:unread label:x label:y from:a@b.com"

\* C20: a flag set to False contributes nothing: the query equals the query
\* of the same filters with that flag absent, and no part of it is empty.
C20_FalseIsAbsent ==
    Built =>
        /\ \A flag \in FlagNames :
              search.filters[flag] = "False" =>
                  search.query = Query([search.filters EXCEPT ![flag] = None])
        /\ \A i \in 1..Len(search.query_parts) : search.query_parts[i] # ""

\* C20 for the flags other than is_unread
C20_OtherFlags ==
    Built =>
        \A flag \in FlagNames \ {"is_unread"} :
            search.filters[flag] = "False" =>
                /\ search.query = Query([search.filters EXCEPT ![flag] = None])
                /\ QueryParts(search.filters) =
                      QueryParts([search.filters EXCEPT ![flag] = None])


C22_CcIsSet ==
    (RepliedAll /\ reply.cc.given) =>
        \A i, j \in 1..Len(reply.cc_list) :
            i # j =>
                MailboxesIn(reply.cc_list[i]) \cap MailboxesIn(reply.cc_list[j]) = {}

\* C22 for the merge of the explicit Cc alone: a reply-all address is not
\* appended when the explicit Cc holds its mailbox
C22_ExplicitNotRepeated ==
    (RepliedAll /\ reply.cc_arg.given /\ reply.cc_arg.text # <<>>) =>
        LET explicit_cc == ParseEmailAddresses(reply.cc_arg.text) IN
        \A i \in 1..Len(explicit_cc) :
            \A j \in (Len(explicit_cc) + 1)..Len(reply.cc_list) :
                MailboxesIn(explicit_cc[i]) \cap MailboxesIn(reply.cc_list[j]) = {}


\* C23: when a file is missing at any path of attachment_paths, the
\* operation (send_email, create_draft, send_reply, create_reply_draft)
\* issues no request that sends a message or creates a draft, and it fails
\* with the attachment-not-found error once it assembles the message, that
\* is unless a reply could not fetch the original message.
C23_MissingAttachmentNoSend ==
    (/\ outbound.op # "none"
     /\ \E i \in 1..Len(outbound.attachment_paths.list) :
           ~outbound.attachment_paths.list[i]) =>
        /\ \A i \in 1..Len(outbound.requests) : ~Delivers(outbound.requests[i])
        /\ outbound.outcome \in {"attachment_not_found", "remote_error"}
        /\ outbound.outcome = "remote_error" =>
              /\ outbound.requests = <<"messages.get">>
              /\ ~outbound.original_ok
        /\ outbound.attached < Len(outbound.attachment_paths.list)

\* A reply whose second attachment is missing: the original was fetched,
\* one file was attached, nothing was sent
C23_Witness ==
    /\ outbound.op = "send_reply"
    /\ outbound.attachment_paths.list = <<TRUE, FALSE, TRUE>>
    /\ outbound.outcome = "attachment_not_found"
    /\ outbound.requests = <<"messages.get">>
    /\ outbound.attached = 1


\* C24: get_emails never aborts on the failure of one item: each id is
\* attempted once and in order, each ends in exactly one of the success
\* list and the error list, and the result reports both.
C24_BatchNeverAborts ==
    Batched =>
        /\ batch.attempted = [i \in 1..Len(batch.message_ids) |-> i]
        /\ Range(batch.retrieved_emails) \cap Range(batch.error_emails) = {}
        /\ Len(batch.retrieved_emails) + Len(batch.error_emails)
              = Len(batch.message_ids)
        /\ batch.outcome = "returned"
        /\ batch.reported = batch.retrieved_emails
        /\ batch.reported_errors = batch.error_emails

\* C24 for the fetch loop alone, and for the result when there is one
C24_FetchLoopPartitions ==
    Batched =>
        /\ batch.attempted = [i \in 1..Len(batch.message_ids) |-> i]
        /\ Range(batch.retrieved_emails) \cap Range(batch.error_emails) = {}
        /\ Len(batch.retrieved_emails) + Len(batch.error_emails)
              = Len(batch.message_ids)
        /\ batch.outcome = "returned" =>
              /\ batch.reported = batch.retrieved_emails
              /\ batch.reported_errors = batch.error_emails
        /\ batch.outcome = "raised" =>
              \E i \in 1..Len(batch.message_ids) :
                  batch.message_ids[i] = "undecodable"


\* C25: handles are cached per account key, an omitted account being the
\* account key "default": get_gmail_service returns a handle at most once
\* for each account key, and a call that finds the handle cached returns
\* that handle and leaves the token file as it was.
C25_OncePerAccountKey ==
    /\ \A k \in AccountNames \ {""} : server.runs[k] <= 1
    /\ server.served.hit =>
          /\ server.served.handle = server.services[server.served.key]
          /\ file = server.served.before

\* C25 for the keys of the cache: a handle is built at most once for each
\* key of _services, and a call that finds it returns it and leaves the
\* token file as it was
C25_OncePerCacheKey ==
    /\ server.built = Cardinality({key \in CacheKeys :
                                      server.services[key] # NoHandle})
    /\ server.served.hit =>
          /\ server.served.handle = server.services[server.served.key]
          /\ server.served.handle # NoHandle
          /\ file = server.served.before


\* The text ext is the extension of the file name that base \o ext ends
\* with: empty, or a dot followed by characters other than "." and "/",
\* with a character other than "." before it in the file name
IsExtensionOf(base, ext) ==
    /\ \A k \in 2..Len(ext) : ext[k] \notin {".", "/"}
    /\ ext # <<>> =>
          /\ ext[1] = "."
          /\ base # <<>> /\ base[Len(base)] # "/"
          /\ \E k \in (LastIndexOf(base, "/") + 1)..Len(base) : base[k] # "."
    /\ ext = <<>> =>
          LET name == SubSeq(base, LastIndexOf(base, "/") + 1, Len(base))
          IN  \A k \in 1..Len(name) :
                  name[k] = "." => \A j \in 1..(k - 1) : name[j] = "."

\* C26: with the shared-file layout get_token_path_for_account returns the
\* configured token path for every account, omitted or not; with the
\* per-account layout it returns the configured path when no account is
\* given (None or the empty string) and otherwise the path with _<account>
\* inserted before the extension.
C26_TokenPath ==
    paths.op # "none" =>
        /\ paths.multi_account_single_file => paths.result = paths.token_path
        /\ (~paths.multi_account_single_file /\ paths.account \in {None, ""}) =>
              paths.result = paths.token_path
        /\ (~paths.multi_account_single_file /\ paths.account \notin {None, ""}) =>
              \E i \in 0..Len(paths.token_path) :
                  LET base == SubSeq(paths.token_path, 1, i)
                      ext == SubSeq(paths.token_path, i + 1, Len(paths.token_path))
                  IN  /\ IsExtensionOf(base, ext)
                      /\ paths.result = base \o <<"_", paths.account>> \o ext

\* token.json for the account work in the per-account layout: token_work.json
C26_Witness ==
    /\ paths.op # "none"
    /\ ~paths.multi_account_single_file
    /\ paths.token_path = <<"t", ".", "j">>
    /\ paths.account = "work"
    /\ paths.result = <<"t", "_", "work", ".", "j">>


\* C27: credential isolation.  Starting from no file, after any sequence of
\* get_gmail_service invocations of one process the record stored under an
\* account key k was obtained (authorized or refreshed) in an invocation
\* whose account key was k.
C27_CredentialIsolation ==
    origin.fresh =>
        \A k \in StoredKeys(file) :
            LET rec == RecordOf(file, k)
            IN  /\ HasKey(rec, "token")
                /\ Get(rec, "token").n \in 1..Len(origin.by)
                /\ origin.by[Get(rec, "token").n] = k


\* C28: form monotonicity.  In single-process sequential use, once the token
\* file is in multi-account form no get_gmail_service invocation rewrites it
\* in legacy form, whatever its account key and credential state.
C28_FormMonotone == [][MultiForm(file) => MultiForm(file')]_vars

\* An invocation that found a multi-account file and rewrote it after a
\* refresh of an expired record
C28_Witness ==
    /\ Called
    /\ MultiForm(last.before)
    /\ last.found /\ last.expired
    /\ last.refreshes = 1
    /\ last.writes = 1
    /\ file # last.before
    /\ MultiForm(file)


\* The last invocation wrote the file through the multi-account branch of
\* _save_token_file (lines 94-104)
WroteMulti ==
    /\ Called
    /\ last.writes = 1
    /\ \/ last.is_multi_file
       \/ LegacyWithOther(IF last.before.exists THEN last.before.data ELSE Null,
                          last.account_key)

\* C29: classification stability.  Every file written by the multi-account
\* save path is classified as multi-account form by the next load, for every
\* account key of a domain that includes the names of token fields such as
\* "refresh_token".
C29_WrittenMultiReadsMulti == WroteMulti => MultiForm(file)

\* The same for every account key that is not the name of the field the
\* structural test looks for
C29_OtherKeysReadMulti ==
    (WroteMulti /\ last.account_key # "refresh_token") => MultiForm(file)


\* C30: each get_gmail_service invocation writes the token file at most
\* once, and only after a refresh or an interactive authorization succeeded
\* in that invocation and before the handle is returned; an invocation that
\* ends in an error (unknown account, failed refresh, missing application
\* credentials file, failed authorization) writes nothing and leaves the
\* token file unchanged.
C30_WriteOnlyAfterSuccess ==
    Called =>
        /\ last.writes <= 1
        /\ last.writes = 1 =>
              /\ last.refreshes + last.auths = 1
              /\ last.refreshes = 1 => last.refreshOk
              /\ last.outcome = "ready"
              /\ last.saved # Null
        /\ last.outcome # "ready" =>
              /\ last.writes = 0
              /\ file = last.before
        /\ last.writes = 0 => file = last.before

\* An invocation that found no record, authorized interactively and then
\* wrote the file once
C30_Witness ==
    /\ Called
    /\ ~last.found
    /\ last.auths = 1
    /\ last.refreshes = 0
    /\ last.writes = 1
    /\ last.outcome = "ready"
    /\ file # last.before

=============================================================================
